---- MODULE Spec2Model ----
(***************************************************************************)
(* The LinkedIn post generator API of backend.py: five Flask routes in     *)
(* front of one text-generation backend (llm).  A request is handled by    *)
(* one server thread; the handler blocks on each backend call, so the      *)
(* model gives every thread a position (pc) and lets the threads           *)
(* interleave at the backend calls.                                        *)
(*                                                                         *)
(* Text is a sequence of atoms.  An atom is one character where the code   *)
(* looks at characters (the "Error" prefix, whitespace), and a whole run   *)
(* of literal text where it does not (template bodies, fixed messages,     *)
(* field names).                                                           *)
(***************************************************************************)
EXTENDS Integers, Sequences, FiniteSets, TLC

VARIABLES llm, MODEL_NAME, generate_template, regenerate_template,
          reduce_template, elaborate_template,
          pc, req, calls, probes, resp

globals == <<llm, MODEL_NAME, generate_template, regenerate_template,
             reduce_template, elaborate_template>>

vars == <<llm, MODEL_NAME, generate_template, regenerate_template,
          reduce_template, elaborate_template, pc, req, calls, probes, resp>>

\* Server threads handling requests at the same time.  Two are enough to
\* interleave any handler with any other and to compare two requests.
Workers == {"t1", "t2"}

\* Longest run of whitespace the backend puts before or after its text.
MaxPad == 1

----------------------------------------------------------------------------
\* Python str operations

Whitespace == {" ", "\t", "\n", "\r", "\f"}

IsSpace(c) == c \in Whitespace

startswith(s, prefix) ==
    /\ Len(s) >= Len(prefix)
    /\ SubSeq(s, 1, Len(prefix)) = prefix

RECURSIVE lstrip(_)
lstrip(s) == IF s # <<>> /\ IsSpace(Head(s)) THEN lstrip(Tail(s)) ELSE s

RECURSIVE rstrip(_)
rstrip(s) ==
    IF s # <<>> /\ IsSpace(s[Len(s)]) THEN rstrip(SubSeq(s, 1, Len(s) - 1)) ELSE s

\* str.strip() with only the leading whitespace removed (mutation of strip).
strip_leading_only(s) == lstrip(s)

strip(s) == rstrip(lstrip(s))

\* sub in s, for two str values
Contains(s, sub) ==
    \E i \in 1..(Len(s) - Len(sub) + 1) : SubSeq(s, i, i + Len(sub) - 1) = sub

RECURSIVE join(_, _)
join(sep, xs) ==
    IF xs = <<>> THEN <<>>
    ELSE IF Len(xs) = 1 THEN <<xs[1]>>
    ELSE <<xs[1]>> \o sep \o join(sep, Tail(xs))

Error == <<"E", "r", "r", "o", "r">>

----------------------------------------------------------------------------
\* JSON values of a request body

JStr(s) == [t |-> "str", v |-> s]
JNum(digits) == [t |-> "num", v |-> digits]

\* str(value), as str.format applies it to a substituted value
PyStr(val) == val.v

\* value[:50] raises TypeError on a value that cannot be sliced
Sliceable(val) == val.t = "str"

NonJson == [kind |-> "nonjson", obj |-> {}, arr |-> <<>>, str |-> <<>>]
BadJson == [kind |-> "badjson", obj |-> {}, arr |-> <<>>, str |-> <<>>]
JsonNull == [kind |-> "null", obj |-> {}, arr |-> <<>>, str |-> <<>>]
JsonNumber == [kind |-> "num", obj |-> {}, arr |-> <<>>, str |-> <<>>]
JsonString(s) == [kind |-> "str", obj |-> {}, arr |-> <<>>, str |-> s]
JsonArray(a) == [kind |-> "arr", obj |-> {}, arr |-> a, str |-> <<>>]
JsonObject(o) == [kind |-> "obj", obj |-> o, arr |-> <<>>, str |-> <<>>]

Keys(data) == {p[1] : p \in data.obj}

\* field in data: a key of a dict, an element of a list, a substring of a
\* str; TypeError for a number and for None
PyIn(field, data) ==
    CASE data.kind = "obj" -> [raised |-> FALSE, val |-> field \in Keys(data)]
      [] data.kind = "arr" ->
            [raised |-> FALSE,
             val |-> \E i \in 1..Len(data.arr) : data.arr[i] = JStr(<<field>>)]
      [] data.kind = "str" ->
            [raised |-> FALSE, val |-> Contains(data.str, <<field>>)]
      [] OTHER -> [raised |-> TRUE, val |-> FALSE]

\* data[field]: the value of a dict; TypeError for a list or a str indexed
\* by a str, KeyError for an absent key
Subscript(data, field) ==
    IF data.kind = "obj" /\ field \in Keys(data)
    THEN [raised |-> FALSE,
          val |-> (CHOOSE p \in data.obj : p[1] = field)[2]]
    ELSE [raised |-> TRUE, val |-> JStr(<<>>)]

----------------------------------------------------------------------------
\* The backend: llm.invoke(prompt) returns text or raises

Return(text) == [ok |-> TRUE, text |-> text]
Raise(msg) == [ok |-> FALSE, text |-> msg]

\* Messages carried by the errors the backend raises
Messages == {<<"boom">>, <<"connection refused">>}

RECURSIVE Pad(_)
Pad(n) == IF n = 0 THEN <<>>
          ELSE <<(IF n % 2 = 1 THEN " " ELSE "\n")>> \o Pad(n - 1)

\* Texts the backend returns, before padding: a post, a post with inner
\* whitespace, a text that opens with "Error", one that almost does, nothing
Cores == {<<"H", "i">>, <<"H", " ", "i">>, Error \o <<"!">>,
          <<"E", "r", "r", "o">>, <<>>}

RawOutputs == {Pad(l) \o core \o Pad(t) : l \in 0..MaxPad, t \in 0..MaxPad,
                                            core \in Cores}

InvokeOutcomes == {Return(t) : t \in RawOutputs} \cup {Raise(m) : m \in Messages}

ProbePrompt == <<"Say hello in one word.">>

\* What llm.invoke does with the probe's prompt.  is_ollama_available drops
\* the text it returns, so one text stands for all
ProbeOutcomes == {Return(<<"H", "e", "l", "l", "o">>)} \cup {Raise(m) : m \in Messages}

\* prompt.format(name=value) on a template with one placeholder
format(template, value) == <<template.head>> \o PyStr(value) \o <<template.tail>>

\* is_ollama_available with every raised error taken for success (mutation).
is_ollama_available_ignoring_errors(handle, outcome) == handle # "None"

\* is_ollama_available(): outcome is what llm.invoke did, when it was called
is_ollama_available(handle, outcome) ==
    IF handle = "None" THEN FALSE ELSE outcome.ok

generate_linkedin_post(outcome) ==
    IF outcome.ok THEN outcome.text
    ELSE Error \o <<" generating LinkedIn post: ">> \o outcome.text

regenerate_linkedin_post(outcome) ==
    IF outcome.ok THEN outcome.text
    ELSE Error \o <<" regenerating LinkedIn post: ">> \o outcome.text

modify_linkedin_post(outcome) ==
    IF outcome.ok THEN outcome.text
    ELSE Error \o <<" modifying LinkedIn post: ">> \o outcome.text

----------------------------------------------------------------------------
\* Responses

JsonError(status, text) ==
    [status |-> status, kind |-> "error", text |-> text, available |-> FALSE]
JsonPost(text) ==
    [status |-> 200, kind |-> "post", text |-> text, available |-> FALSE]
\* The page Flask answers with when a handler raises: 400 for a BadRequest
\* from get_json, 500 for any other exception
HttpException(status) ==
    [status |-> status, kind |-> "html", text |-> <<>>, available |-> FALSE]
NoResp == [status |-> 0, kind |-> "none", text |-> <<>>, available |-> FALSE]

Done(response) == [next |-> "done", resp |-> response, prompt |-> <<>>]
ToProbe == [next |-> "probe", resp |-> NoResp, prompt |-> <<>>]
ToTemplate(prompt) == [next |-> "template", resp |-> NoResp, prompt |-> prompt]

\* The probe's failure answered with 503 (mutation of Unavailable).
Unavailable503 == JsonError(503, <<"Ollama service is not available">>)

Unavailable == JsonError(500, <<"Ollama service is not available">>)

RequiredFields == <<"context", "current_post", "action">>

\* The content-type test left out (mutation of is_json).
is_json_unchecked(body) == TRUE

\* request.is_json: the content type says JSON
is_json(body) == body.kind # "nonjson"

\* request.get_json() raises BadRequest on a body that does not parse
get_json_raises(body) == body.kind = "badjson"

\* [field for field in required_fields if field not in data]
missing_fields(data) ==
    SelectSeq(RequiredFields, LAMBDA f : ~PyIn(f, data).val)

----------------------------------------------------------------------------
\* The handlers, cut at the two backend calls: up to the probe, from the
\* probe's answer to the template call, and from the call's outcome on.

\* if not request.is_json / data = request.get_json() / 'context' not in data
context_validate(body) ==
    IF ~is_json(body) THEN Done(JsonError(400, <<"Request must be JSON">>))
    ELSE IF get_json_raises(body) THEN Done(HttpException(400))
    ELSE IF PyIn("context", body).raised THEN Done(HttpException(500))
    ELSE IF ~PyIn("context", body).val
         THEN Done(JsonError(400, <<"Missing '", "context", "' field">>))
    ELSE ToProbe

generate_post_validate(body) == context_validate(body)

regenerate_post_validate(body) == context_validate(body)

modify_post_validate(body) ==
    IF ~is_json(body) THEN Done(JsonError(400, <<"Request must be JSON">>))
    ELSE IF get_json_raises(body) THEN Done(HttpException(400))
    ELSE IF PyIn(RequiredFields[1], body).raised THEN Done(HttpException(500))
    ELSE IF missing_fields(body) # <<>>
         THEN Done(JsonError(400, <<"Missing fields: ">>
                                   \o join(<<", ">>, missing_fields(body))))
    ELSE ToProbe

\* data['context'][:50] for the log line, then the prompt of the call
context_probed(body, available, template) ==
    IF ~available THEN Done(Unavailable)
    ELSE IF Subscript(body, "context").raised THEN Done(HttpException(500))
    ELSE IF ~Sliceable(Subscript(body, "context").val) THEN Done(HttpException(500))
    ELSE ToTemplate(format(template, Subscript(body, "context").val))

generate_post_probed(body, available) ==
    context_probed(body, available, generate_template)

regenerate_post_probed(body, available) ==
    context_probed(body, available, regenerate_template)

ValidActions == {JStr(<<"reduce">>), JStr(<<"elaborate">>)}

\* The prompt with data['context'] substituted for {post} (mutation).
modify_post_prompt_from_context(data) ==
    format(IF Subscript(data, "action").val = JStr(<<"reduce">>)
           THEN reduce_template ELSE elaborate_template,
           Subscript(data, "context").val)

\* modify_linkedin_post(data['current_post'], data['action']) up to the call
modify_post_prompt(data) ==
    format(IF Subscript(data, "action").val = JStr(<<"reduce">>)
           THEN reduce_template ELSE elaborate_template,
           Subscript(data, "current_post").val)

modify_post_probed(body, available) ==
    IF ~available THEN Done(Unavailable)
    ELSE IF Subscript(body, "action").raised THEN Done(HttpException(500))
    ELSE IF Subscript(body, "action").val \notin ValidActions
         THEN Done(JsonError(400, <<"Invalid action. Use 'reduce' or 'elaborate'.">>))
    ELSE ToTemplate(modify_post_prompt(body))

\* The "Error" test made on the stripped text (mutation).
respond_sniffing_stripped(text) ==
    IF startswith(strip(text), Error) THEN JsonError(500, text)
    ELSE JsonPost(strip(text))

\* if text.startswith("Error"): 500 / else: 200 with text.strip()
respond(text) ==
    IF startswith(text, Error) THEN JsonError(500, text)
    ELSE JsonPost(strip(text))

root_respond(available) ==
    [status |-> 200, kind |-> "status", text |-> <<MODEL_NAME>>,
     available |-> available]

health_check == [status |-> 200, kind |-> "ok", text |-> <<>>, available |-> FALSE]

Validate(endpoint, body) ==
    CASE endpoint = "/" -> ToProbe
      [] endpoint = "/health" -> Done(health_check)
      [] endpoint = "/generate_post" -> generate_post_validate(body)
      [] endpoint = "/regenerate_post" -> regenerate_post_validate(body)
      [] endpoint = "/modify_post" -> modify_post_validate(body)

AfterProbe(endpoint, body, available) ==
    CASE endpoint = "/" -> Done(root_respond(available))
      [] endpoint = "/generate_post" -> generate_post_probed(body, available)
      [] endpoint = "/regenerate_post" -> regenerate_post_probed(body, available)
      [] endpoint = "/modify_post" -> modify_post_probed(body, available)

AfterTemplate(endpoint, outcome) ==
    CASE endpoint = "/generate_post" -> respond(generate_linkedin_post(outcome))
      [] endpoint = "/regenerate_post" -> respond(regenerate_linkedin_post(outcome))
      [] endpoint = "/modify_post" -> respond(modify_linkedin_post(outcome))

----------------------------------------------------------------------------
\* Requests

ContextValues == {JStr(<<"h", "i">>), JStr(<<"y", "o">>), JNum(<<"5">>)}
PostValues == {JStr(<<"p">>)}
ActionValues == {JStr(<<"reduce">>), JStr(<<"elaborate">>), JStr(<<"delete">>)}

Field(name, values) == {{}} \cup {{<<name, v>>} : v \in values}

ContextObjects == {JsonObject(c) : c \in Field("context", ContextValues)}

ModifyObjects ==
    {JsonObject(c \cup p \cup a) : c \in Field("context", ContextValues),
                                   p \in Field("current_post", PostValues),
                                   a \in Field("action", ActionValues)}

OtherBodies ==
    {NonJson, BadJson, JsonNull, JsonNumber,
     JsonString(<<"h", "i">>),
     JsonString(<<"no ", "context", ", ", "current_post", ", ", "action">>),
     JsonArray(<<>>),
     JsonArray(<<JStr(<<"context">>)>>),
     JsonArray(<<JStr(<<"action">>), JStr(<<"current_post">>), JStr(<<"context">>)>>)}

NoBody == NonJson

GenerationEndpoints == {"/generate_post", "/regenerate_post", "/modify_post"}

Requests ==
    {[endpoint |-> e, body |-> NoBody] : e \in {"/", "/health"}}
    \cup {[endpoint |-> e, body |-> b] :
            e \in {"/generate_post", "/regenerate_post"},
            b \in ContextObjects \cup OtherBodies}
    \cup {[endpoint |-> "/modify_post", body |-> b] :
            b \in ModifyObjects \cup OtherBodies}

NoReq == [endpoint |-> "none", body |-> NoBody]

----------------------------------------------------------------------------
\* The state machine

Init ==
    /\ llm \in {"None", "OllamaLLM"}
    /\ MODEL_NAME = "mistral:latest"
    /\ generate_template =
         [head |-> "\nYou are a professional LinkedIn post generator. Create an engaging and professional post based on the following context.\nThe post should follow LinkedIn best practices, include relevant hashtags, and be appropriately formatted.\n\nUSER CONTEXT:\n",
          tail |-> "\n\nLINKEDIN POST:\n"]
    /\ regenerate_template =
         [head |-> "\nYou are a professional LinkedIn post generator. Create a NEW engaging and professional post based on the following context.\nThis should be completely different from any previous post.\nThe post should follow LinkedIn best practices, include relevant hashtags, and be appropriately formatted.\n\nUSER CONTEXT:\n",
          tail |-> "\n\nNEW LINKEDIN POST:\n"]
    /\ reduce_template =
         [head |-> "\nMake this LinkedIn post more concise while preserving the key message.\nAim for about half the original length.\n\nORIGINAL POST:\n",
          tail |-> "\n\nSHORTER LINKEDIN POST:\n"]
    /\ elaborate_template =
         [head |-> "\nExpand this LinkedIn post with more details, examples, or insights.\nMake it more compelling and detailed while maintaining professionalism.\n\nORIGINAL POST:\n",
          tail |-> "\n\nEXPANDED LINKEDIN POST:\n"]
    /\ pc = [w \in Workers |-> "idle"]
    /\ req = [w \in Workers |-> NoReq]
    /\ calls = [w \in Workers |-> <<>>]
    /\ probes = [w \in Workers |-> 0]
    /\ resp = [w \in Workers |-> NoResp]

\* Flask dispatches a request to its handler, which runs up to its first
\* backend call or to its response
Receive(w, r) ==
    /\ pc[w] = "idle"
    /\ LET step == Validate(r.endpoint, r.body) IN
         /\ pc' = [pc EXCEPT ![w] = step.next]
         /\ resp' = [resp EXCEPT ![w] = step.resp]
    /\ req' = [req EXCEPT ![w] = r]
    /\ UNCHANGED <<globals, calls, probes>>

\* The probe with a failure making the handler drop the handle (mutation).
ProbeStepDroppingHandle(w) ==
    /\ pc[w] = "probe"
    /\ \E outcome \in (IF llm = "None" THEN {Raise(<<>>)} ELSE ProbeOutcomes) :
         LET available == is_ollama_available(llm, outcome)
             step == AfterProbe(req[w].endpoint, req[w].body, available) IN
           /\ calls' = [calls EXCEPT ![w] =
                          IF llm = "None" THEN @
                          ELSE Append(@, [prompt |-> ProbePrompt, result |-> outcome])]
           /\ pc' = [pc EXCEPT ![w] = step.next]
           /\ resp' = [resp EXCEPT ![w] = step.resp]
           /\ llm' = IF available THEN llm ELSE "None"
    /\ probes' = [probes EXCEPT ![w] = @ + 1]
    /\ UNCHANGED <<MODEL_NAME, generate_template, regenerate_template,
                   reduce_template, elaborate_template, req>>

\* is_ollama_available() and the handler's code up to the template call
ProbeStep(w) ==
    /\ pc[w] = "probe"
    /\ \E outcome \in (IF llm = "None" THEN {Raise(<<>>)} ELSE ProbeOutcomes) :
         LET available == is_ollama_available(llm, outcome)
             step == AfterProbe(req[w].endpoint, req[w].body, available) IN
           /\ calls' = [calls EXCEPT ![w] =
                          IF llm = "None" THEN @
                          ELSE Append(@, [prompt |-> ProbePrompt, result |-> outcome])]
           /\ pc' = [pc EXCEPT ![w] = step.next]
           /\ resp' = [resp EXCEPT ![w] = step.resp]
    /\ probes' = [probes EXCEPT ![w] = @ + 1]
    /\ UNCHANGED <<globals, req>>

\* The template call with a raised error answered by calling again (mutation).
TemplateStepRetrying(w) ==
    /\ pc[w] = "template"
    /\ Len(calls[w]) < 4
    /\ \E outcome \in InvokeOutcomes :
         /\ calls' = [calls EXCEPT ![w] =
                        Append(@, [prompt |-> AfterProbe(req[w].endpoint, req[w].body,
                                                         TRUE).prompt,
                                   result |-> outcome])]
         /\ IF outcome.ok \/ Len(calls[w]) >= 3
            THEN /\ resp' = [resp EXCEPT ![w] = AfterTemplate(req[w].endpoint, outcome)]
                 /\ pc' = [pc EXCEPT ![w] = "done"]
            ELSE UNCHANGED <<resp, pc>>
    /\ UNCHANGED <<globals, req, probes>>

\* llm.invoke(prompt.format(...)) and the handler's code after it
TemplateStep(w) ==
    /\ pc[w] = "template"
    /\ \E outcome \in InvokeOutcomes :
         /\ calls' = [calls EXCEPT ![w] =
                        Append(@, [prompt |-> AfterProbe(req[w].endpoint, req[w].body,
                                                         TRUE).prompt,
                                   result |-> outcome])]
         /\ resp' = [resp EXCEPT ![w] = AfterTemplate(req[w].endpoint, outcome)]
    /\ pc' = [pc EXCEPT ![w] = "done"]
    /\ UNCHANGED <<globals, req, probes>>

\* The response is sent and the thread is free for the next request
Reply(w) ==
    /\ pc[w] = "done"
    /\ pc' = [pc EXCEPT ![w] = "idle"]
    /\ req' = [req EXCEPT ![w] = NoReq]
    /\ calls' = [calls EXCEPT ![w] = <<>>]
    /\ probes' = [probes EXCEPT ![w] = 0]
    /\ resp' = [resp EXCEPT ![w] = NoResp]
    /\ UNCHANGED globals

Next ==
    \E w \in Workers :
        \/ \E r \in Requests : Receive(w, r)
        \/ ProbeStep(w)
        \/ TemplateStep(w)
        \/ Reply(w)

Spec == Init /\ [][Next]_vars

TypeOK ==
    /\ llm \in {"None", "OllamaLLM"}
    /\ pc \in [Workers -> {"idle", "probe", "template", "done"}]
    /\ \A w \in Workers : pc[w] = "idle" \/ req[w] \in Requests

----------------------------------------------------------------------------
\* Vocabulary of the properties

Started(w) == pc[w] # "idle"
Finished(w) == pc[w] = "done"
IsGeneration(w) == req[w].endpoint \in GenerationEndpoints

Required(endpoint) ==
    IF endpoint = "/modify_post" THEN {"context", "current_post", "action"}
    ELSE {"context"}

\* The body parsed as JSON
ParsedJson(body) == body.kind \notin {"nonjson", "badjson"}

\* The JSON value has the field: it is an object and the field is a key
HasField(body, f) == body.kind = "obj" /\ f \in Keys(body)

\* The handler's own field test lets the body through
PassesFieldTest(endpoint, body) ==
    /\ ParsedJson(body)
    /\ \A f \in Required(endpoint) : ~PyIn(f, body).raised /\ PyIn(f, body).val

IsProbeCall(c) == c.prompt = ProbePrompt
TemplateCallIndexes(w) == {i \in 1..Len(calls[w]) : ~IsProbeCall(calls[w][i])}
ProbeCallIndexes(w) == {i \in 1..Len(calls[w]) : IsProbeCall(calls[w][i])}

Min(a, b) == IF a < b THEN a ELSE b

\* The backend did the same thing at every call the two requests both made
SameBackendBehaviour(w1, w2) ==
    \A i \in 1..Min(Len(calls[w1]), Len(calls[w2])) :
        calls[w1][i].result = calls[w2][i].result

UnavailableText == <<"Ollama service is not available">>

AllWhitespace(s) == \A i \in 1..Len(s) : s[i] \in {" ", "\t", "\n", "\r", "\f"}

----------------------------------------------------------------------------
\* C1: a /modify_post request whose body has context, current_post and action,
\* with an action other than "reduce" and "elaborate", is answered 400 and
\* makes no backend call, neither the probe's nor a template's.
C1_InvalidActionNeverReachesBackend ==
    \A w \in Workers :
        ( /\ Started(w)
          /\ req[w].endpoint = "/modify_post"
          /\ \A f \in Required("/modify_post") : HasField(req[w].body, f)
          /\ Subscript(req[w].body, "action").val \notin
                {JStr(<<"reduce">>), JStr(<<"elaborate">>)} )
        => /\ calls[w] = <<>>
           /\ Finished(w) => resp[w].status = 400

\* C2 as stated: when every backend call of a validated generation request
\* raised an error with message M, the response is 500 and its error field
\* contains M.
C2_RaisingBackendMessageReturned ==
    \A w \in Workers : \A m \in Messages :
        ( /\ Finished(w) /\ IsGeneration(w)
          /\ PassesFieldTest(req[w].endpoint, req[w].body)
          /\ calls[w] # <<>>
          /\ \A i \in 1..Len(calls[w]) : calls[w][i].result = Raise(m) )
        => /\ resp[w].status = 500
           /\ resp[w].kind = "error"
           /\ Contains(resp[w].text, m)

\* C2 amended: when every backend call of a validated generation request
\* raised, the request made the probe call only and the response is 500 with
\* the fixed error text "Ollama service is not available".
C2_RaisingBackendReportedUnavailable ==
    \A w \in Workers : \A m \in Messages :
        ( /\ Finished(w) /\ IsGeneration(w)
          /\ PassesFieldTest(req[w].endpoint, req[w].body)
          /\ calls[w] # <<>>
          /\ \A i \in 1..Len(calls[w]) : calls[w][i].result = Raise(m) )
        => /\ resp[w].status = 500
           /\ resp[w].kind = "error"
           /\ resp[w].text = UnavailableText
           /\ Len(calls[w]) = 1 /\ IsProbeCall(calls[w][1])

C2_Witness ==
    \E w \in Workers :
        /\ Finished(w) /\ req[w].endpoint = "/regenerate_post"
        /\ PassesFieldTest(req[w].endpoint, req[w].body)
        /\ calls[w] = <<[prompt |-> ProbePrompt, result |-> Raise(<<"boom">>)]>>
        /\ resp[w].status = 500 /\ resp[w].text = UnavailableText

\* C3: a generation request whose body is JSON of any shape and lacks a
\* required field is answered 400 with an error text that names every missing
\* required field and no present one.
C3_MissingFieldsNamed ==
    \A w \in Workers :
        ( /\ Finished(w) /\ IsGeneration(w)
          /\ ParsedJson(req[w].body)
          /\ \E f \in Required(req[w].endpoint) : ~HasField(req[w].body, f) )
        => /\ resp[w].status = 400
           /\ \A f \in Required(req[w].endpoint) :
                 Contains(resp[w].text, <<f>>) <=> ~HasField(req[w].body, f)

\* C4: in a generation request whose probe reports unavailable (no handle, or
\* the probe call raised), no template prompt is sent to the backend and the
\* response is 500.
C4_UnavailableMakesNoTemplateCall ==
    \A w \in Workers :
        ( /\ IsGeneration(w) /\ probes[w] >= 1
          /\ \/ llm = "None"
             \/ calls[w] # <<>> /\ ~calls[w][1].result.ok )
        => /\ TemplateCallIndexes(w) = {}
           /\ Finished(w)
           /\ resp[w].status = 500

C4_Witness ==
    \E w \in Workers :
        /\ req[w].endpoint = "/modify_post" /\ Finished(w)
        /\ Subscript(req[w].body, "action").val = JStr(<<"elaborate">>)
        /\ Len(calls[w]) = 1 /\ ~calls[w][1].result.ok
        /\ resp[w].status = 500

\* C5: a generation request whose body is not JSON (wrong content type, or a
\* body that does not parse) is answered 400 and the backend is called zero
\* times: no probe, no template call.
C5_NonJsonRejectedWithoutBackend ==
    \A w \in Workers :
        (Started(w) /\ IsGeneration(w) /\ ~ParsedJson(req[w].body))
        => /\ Finished(w)
           /\ resp[w].status = 400
           /\ calls[w] = <<>>
           /\ probes[w] = 0

C5_Witness ==
    /\ llm = "OllamaLLM"
    /\ \E w1, w2 \in Workers :
        /\ Finished(w1) /\ req[w1] = [endpoint |-> "/modify_post", body |-> NonJson]
        /\ Finished(w2) /\ req[w2] = [endpoint |-> "/generate_post", body |-> BadJson]
        /\ resp[w1].status = 400 /\ resp[w2].status = 400

\* C6: the post of a 200 response to a generation request is the text the
\* backend returned for the template call with its leading and its trailing
\* whitespace removed and nothing else changed; it neither starts nor ends
\* with whitespace.
C6_PostIsRawOutputStripped ==
    \A w \in Workers :
        (Finished(w) /\ IsGeneration(w) /\ resp[w].status = 200)
        => /\ resp[w].kind = "post"
           /\ calls[w] # <<>>
           /\ LET last == calls[w][Len(calls[w])]
                  raw == last.result.text
                  post == resp[w].text IN
                /\ ~IsProbeCall(last)
                /\ last.result.ok
                /\ \E a, b \in 0..Len(raw) :
                      /\ a + b <= Len(raw)
                      /\ AllWhitespace(SubSeq(raw, 1, a))
                      /\ AllWhitespace(SubSeq(raw, Len(raw) - b + 1, Len(raw)))
                      /\ post = SubSeq(raw, a + 1, Len(raw) - b)
                /\ post # <<>> =>
                      /\ ~AllWhitespace(<<post[1]>>)
                      /\ ~AllWhitespace(<<post[Len(post)]>>)

C6_Witness ==
    \E w \in Workers :
        /\ Finished(w) /\ req[w].endpoint = "/generate_post"
        /\ resp[w].status = 200
        /\ Len(calls[w]) = 2
        /\ calls[w][2].result = Return(<<" ", "H", " ", "i", " ">>)
        /\ resp[w].text = <<"H", " ", "i">>

\* C7: two /modify_post requests that carry all three fields, agree on
\* current_post and on action, and meet the same backend behaviour send the
\* same prompts to the backend and get the same response, whatever their
\* context values.
C7_ModifyIgnoresContext ==
    \A w1, w2 \in Workers :
        ( /\ Finished(w1) /\ Finished(w2)
          /\ req[w1].endpoint = "/modify_post" /\ req[w2].endpoint = "/modify_post"
          /\ \A f \in Required("/modify_post") :
                HasField(req[w1].body, f) /\ HasField(req[w2].body, f)
          /\ Subscript(req[w1].body, "current_post")
                = Subscript(req[w2].body, "current_post")
          /\ Subscript(req[w1].body, "action") = Subscript(req[w2].body, "action")
          /\ SameBackendBehaviour(w1, w2) )
        => /\ calls[w1] = calls[w2]
           /\ resp[w1] = resp[w2]

C7_Witness ==
    \E w1, w2 \in Workers :
        /\ Finished(w1) /\ Finished(w2)
        /\ req[w1].endpoint = "/modify_post" /\ req[w2].endpoint = "/modify_post"
        /\ Subscript(req[w1].body, "context").val = JStr(<<"h", "i">>)
        /\ Subscript(req[w2].body, "context").val = JStr(<<"y", "o">>)
        /\ Subscript(req[w1].body, "action").val = JStr(<<"reduce">>)
        /\ Subscript(req[w2].body, "action").val = JStr(<<"reduce">>)
        /\ Len(calls[w1]) = 2 /\ calls[w1] = calls[w2]
        /\ resp[w1].status = 200 /\ resp[w1] = resp[w2]

\* C8 as stated, for the requests that reach the template call: the response
\* is 500 with an error field exactly when the call raised or the returned
\* text begins with "Error", and 200 with a post field otherwise; no 200
\* response carries a post that begins with "Error".
C8_NoPostBeginsWithError ==
    \A w \in Workers :
        (Finished(w) /\ IsGeneration(w) /\ Len(calls[w]) = 2)
        => LET result == calls[w][2].result
               failed == ~result.ok \/ startswith(result.text, Error) IN
             /\ failed => resp[w].status = 500 /\ resp[w].kind = "error"
             /\ ~failed => resp[w].status = 200 /\ resp[w].kind = "post"
             /\ resp[w].status = 200 => ~startswith(resp[w].text, Error)

\* C8 amended: for the requests that reach the template call the response is
\* 500 with an error field exactly when the call raised or the returned text
\* begins with "Error", and 200 with a post field otherwise; no 200 response
\* is built from a returned text that begins with "Error".
C8_ErrorPrefixOfRawTextDecides ==
    \A w \in Workers :
        (Finished(w) /\ IsGeneration(w) /\ Len(calls[w]) = 2)
        => LET result == calls[w][2].result
               failed == ~result.ok \/ startswith(result.text, Error) IN
             /\ failed => resp[w].status = 500 /\ resp[w].kind = "error"
             /\ ~failed => resp[w].status = 200 /\ resp[w].kind = "post"
             /\ resp[w].status = 200 => ~startswith(result.text, Error)

\* A returned text that opens with "Error" answered 500, next to a returned
\* text with whitespace before "Error" answered 200 with a post that opens
\* with "Error".
C8_Witness ==
    \E w1, w2 \in Workers :
        /\ Finished(w1) /\ IsGeneration(w1) /\ Len(calls[w1]) = 2
        /\ calls[w1][2].result = Return(Error \o <<"!">>)
        /\ resp[w1].status = 500 /\ resp[w1].kind = "error"
        /\ Finished(w2) /\ IsGeneration(w2) /\ Len(calls[w2]) = 2
        /\ calls[w2][2].result = Return(<<" ">> \o Error \o <<"!">>)
        /\ resp[w2].status = 200 /\ startswith(resp[w2].text, Error)

\* C9: in a generation request that passes the field test the probe runs
\* exactly once, before any template call; at most one template call is
\* made; nothing is retried, so the backend is called at most twice, the
\* probe first and the template second.
C9_ProbeOnceThenAtMostOneTemplateCall ==
    \A w \in Workers :
        ( /\ Started(w) /\ IsGeneration(w)
          /\ PassesFieldTest(req[w].endpoint, req[w].body) )
        => /\ probes[w] = (IF pc[w] = "probe" THEN 0 ELSE 1)
           /\ Len(calls[w]) <= 2
           /\ Cardinality(ProbeCallIndexes(w)) <= probes[w]
           /\ Cardinality(TemplateCallIndexes(w)) <= 1
           /\ \A i \in TemplateCallIndexes(w) :
                 /\ i = 2
                 /\ IsProbeCall(calls[w][1])
                 /\ calls[w][1].result.ok
           /\ pc[w] = "template" => Len(calls[w]) = 1
           /\ (calls[w] # <<>> /\ ~calls[w][Len(calls[w])].result.ok) => Finished(w)

C9_Witness ==
    \E w \in Workers :
        /\ Finished(w) /\ req[w].endpoint = "/generate_post"
        /\ probes[w] = 1
        /\ Len(calls[w]) = 2
        /\ IsProbeCall(calls[w][1]) /\ calls[w][1].result.ok
        /\ ~IsProbeCall(calls[w][2]) /\ ~calls[w][2].result.ok
        /\ resp[w].status = 500

\* A step of thread w
Step(w) ==
    \/ \E r \in Requests : Receive(w, r)
    \/ ProbeStep(w)
    \/ TemplateStep(w)
    \/ Reply(w)

\* Two finished requests with the same route and body that met the same
\* backend behaviour made the same calls and got the same response
SameRequestSameResponse ==
    \A w1, w2 \in Workers :
        ( /\ Finished(w1) /\ Finished(w2)
          /\ req[w1] = req[w2]
          /\ SameBackendBehaviour(w1, w2) )
        => calls[w1] = calls[w2] /\ resp[w1] = resp[w2]

\* C10: requests are independent.  No step changes the backend handle, the
\* model identifier or a template; whatever the other requests did, a thread
\* can always take its next step and a finished request has an HTTP
\* response; and the response is determined by the request and by what the
\* backend did at the calls of that request.
C10_RequestsIndependent ==
    /\ [][globals' = globals]_vars
    /\ [](\A w \in Workers : ENABLED Step(w))
    /\ [](\A w \in Workers : Finished(w) => resp[w].status \in {200, 400, 500})
    /\ []SameRequestSameResponse

\* One request answered 200 while the other, with the same body, was
\* answered 500
C10_Witness ==
    \E w1, w2 \in Workers :
        /\ Finished(w1) /\ Finished(w2)
        /\ req[w1] = req[w2] /\ req[w1].endpoint = "/regenerate_post"
        /\ resp[w1].status = 500 /\ resp[w2].status = 200
        /\ llm = "OllamaLLM"

====
